---- MODULE Spec2Model ----
(***************************************************************************)
(* Model of the boss process supervisor (src/src/boss.rs): the supervision *)
(* table `cmds`, the stream of child futures `all_futures`, and the three  *)
(* branches of the select! loop in main (hangup, completion, end of        *)
(* stream).  The outcome of every spawn, of every kill(2) call and of      *)
(* every wait on a child is chosen by the environment.                     *)
(***************************************************************************)
EXTENDS Integers, Sequences, FiniteSets, TLC

\* Number of child processes the operating system hands out in one run.
MaxPid == 2

\* Keys of the configuration mapping.
Names == {"a", "b"}

\* Option<Pid>
None == <<>>
Some(p) == <<p>>

\* HashMap helpers on Cmds
EmptyMap == [n \in {} |-> None]
MapRemove(m, k) == [n \in DOMAIN m \ {k} |-> m[n]]
MapInsert(m, k, v) == [n \in DOMAIN m \cup {k} |-> IF n = k THEN v ELSE m[n]]

\* Command strings a configuration file may hold (sequences of characters).
\* CmdFive and CmdFiveQ tokenize to the same argv; CmdBad has an open quote.
\* Every command names an executable: argv[0] exists whenever the split
\* succeeds (get_cmd_future indexes argv[0], line 69).
CmdFive == <<"s", " ", "5">>
CmdFiveQ == <<"s", " ", "\"", "5", "\"">>
CmdSix == <<"s", " ", "6">>
CmdBad == <<"s", " ", "\"", "5">>
CmdStrings == {CmdFive, CmdFiveQ, CmdSix, CmdBad}

\* Contents of the YAML file: a mapping from some names to command strings.
ConfigFiles == UNION {[D -> CmdStrings] : D \in SUBSET Names}

(***************************************************************************)
(* shellwords::split as used by get_argv_from_str: blanks separate words,  *)
(* double quotes group, an unterminated quote is an error.                 *)
(***************************************************************************)
RECURSIVE SplitFrom(_, _, _, _, _, _)
SplitFrom(s, i, word, inWord, inQuote, acc) ==
    IF i > Len(s)
    THEN IF inQuote
         THEN [ok |-> FALSE, argv |-> <<>>]
         ELSE [ok |-> TRUE, argv |-> IF inWord THEN Append(acc, word) ELSE acc]
    ELSE IF s[i] = "\""
         THEN SplitFrom(s, i + 1, word, TRUE, ~inQuote, acc)
         ELSE IF s[i] = " " /\ ~inQuote
              THEN SplitFrom(s, i + 1, <<>>, FALSE, FALSE,
                             IF inWord THEN Append(acc, word) ELSE acc)
              ELSE SplitFrom(s, i + 1, Append(word, s[i]), TRUE, inQuote, acc)

get_argv_from_str(s) == SplitFrom(s, 1, <<>>, FALSE, FALSE, <<>>)

\* read_cmds: Err when any command fails to tokenize, else the Cmds table
\* with every pid left at its default (skip_deserializing).
read_cmds(file) ==
    IF \E n \in DOMAIN file : ~get_argv_from_str(file[n]).ok
    THEN [ok |-> FALSE, cmds |-> EmptyMap]
    ELSE [ok |-> TRUE,
          cmds |-> [n \in DOMAIN file |->
                       [argv |-> get_argv_from_str(file[n]).argv, pid |-> None]]]

\* Orders in which a hash set or hash map may be iterated.
Orders(S) == {o \in [1..Cardinality(S) -> S] : \A i, j \in 1..Cardinality(S) : o[i] = o[j] => i = j}

VARIABLES
    pc,           \* "init", "loop", "done" (after break), "failed" (main returned Err)
    cmds,         \* Cmds: name -> [argv, pid]
    all_futures,  \* FuturesUnordered: set of [name, pid, argv] of children awaited
    nextPid,      \* next process identifier the operating system assigns
    ev,           \* the event handled last: inputs, state before, signals and spawns it made
    faulted       \* has any load, spawn, kill or wait failed so far

vars == <<pc, cmds, all_futures, nextPid, ev, faulted>>

NoFut == [name |-> "", pid |-> 0, argv |-> <<>>]

NoEvent == [kind |-> "none", ok |-> TRUE, fut |-> NoFut, cfg |-> EmptyMap,
            cmds |-> EmptyMap, futures |-> {}, signals |-> <<>>, spawns |-> <<>>,
            noChanges |-> FALSE]

\* The running state of one handler: the two collections it mutates, the
\* pid the next spawn gets, and what it has done so far.
Handler(c, f, p) == [cmds |-> c, futs |-> f, next |-> p, signals |-> <<>>,
                     spawns |-> <<>>, changes |-> FALSE]

\* get_cmd_future: spawn argv; on success record the pid in the CmdSpec and
\* return the future carrying the name; on failure leave the CmdSpec alone.
get_cmd_future(name, cmd, pid, spawnOk) ==
    IF spawnOk
    THEN [ok |-> TRUE,
          cmd |-> [cmd EXCEPT !.pid = Some(pid)],
          fut |-> [name |-> name, pid |-> pid, argv |-> cmd.argv],
          spawn |-> [name |-> name, argv |-> cmd.argv, ok |-> TRUE]]
    ELSE [ok |-> FALSE, cmd |-> cmd, fut |-> NoFut,
          spawn |-> [name |-> name, argv |-> cmd.argv, ok |-> FALSE]]

\* Variant of stop_process: the entry is removed whatever kill returned.
stop_process_removing_anyway(cmd_name, st, killOk) ==
    LET pid == st.cmds[cmd_name].pid IN
    IF pid # None
    THEN [st EXCEPT !.cmds = MapRemove(st.cmds, cmd_name),
                    !.signals = Append(@, [name |-> cmd_name, pid |-> pid[1], ok |-> killOk])]
    ELSE st

\* stop_process: SIGTERM to the recorded pid; the entry is removed only
\* when kill returns Ok.  `st` is the handler's running state.
stop_process(cmd_name, st, killOk) ==
    LET pid == st.cmds[cmd_name].pid IN
    IF pid # None
    THEN LET sent == Append(st.signals, [name |-> cmd_name, pid |-> pid[1], ok |-> killOk]) IN
         IF killOk
         THEN [st EXCEPT !.cmds = MapRemove(st.cmds, cmd_name), !.signals = sent]
         ELSE [st EXCEPT !.signals = sent]
    ELSE st

(***************************************************************************)
(* The reload branch, lines 172-210.                                       *)
(***************************************************************************)
\* Stop commands that have been removed from the list (lines 178-181).
stop_removed_cmd(cmd_name, st, killOk) ==
    stop_process(cmd_name, [st EXCEPT !.changes = TRUE], killOk)

RECURSIVE stop_removed(_, _, _)
stop_removed(order, st, killOk) ==
    IF order = <<>> THEN st
    ELSE stop_removed(Tail(order), stop_removed_cmd(Head(order), st, killOk[Head(order)]), killOk)

\* Variant of start_added_cmd: the entry is inserted, the future is dropped.
start_added_cmd_unregistered(cmd_name, new_cmds, st, spawnOk) ==
    LET r == get_cmd_future(cmd_name, new_cmds[cmd_name], st.next, spawnOk)
        s1 == [st EXCEPT !.changes = TRUE, !.spawns = Append(@, r.spawn)]
    IN IF r.ok
       THEN [s1 EXCEPT !.cmds = MapInsert(@, cmd_name, r.cmd), !.next = @ + 1]
       ELSE s1

\* Variant of start_added_cmd: the entry is inserted even when the spawn failed.
start_added_cmd_keeping_failed(cmd_name, new_cmds, st, spawnOk) ==
    LET r == get_cmd_future(cmd_name, new_cmds[cmd_name], st.next, spawnOk)
        s1 == [st EXCEPT !.changes = TRUE, !.spawns = Append(@, r.spawn),
                         !.cmds = MapInsert(@, cmd_name, r.cmd)]
    IN IF r.ok
       THEN [s1 EXCEPT !.futs = @ \cup {r.fut}, !.next = @ + 1]
       ELSE s1

\* Start newly-added commands (lines 184-195).
start_added_cmd(cmd_name, new_cmds, st, spawnOk) ==
    LET r == get_cmd_future(cmd_name, new_cmds[cmd_name], st.next, spawnOk)
        s1 == [st EXCEPT !.changes = TRUE, !.spawns = Append(@, r.spawn)]
    IN IF r.ok
       THEN [s1 EXCEPT !.futs = @ \cup {r.fut},
                       !.cmds = MapInsert(@, cmd_name, r.cmd),
                       !.next = @ + 1]
       ELSE s1

RECURSIVE start_added(_, _, _, _)
start_added(order, new_cmds, st, spawnOk) ==
    IF order = <<>> THEN st
    ELSE start_added(Tail(order), new_cmds,
                     start_added_cmd(Head(order), new_cmds, st, spawnOk[Head(order)]), spawnOk)

\* Variant of argv_differs: compares the whole CmdSpec, pid included.
argv_differs_whole_spec(cur, new) == cur # new

\* The test of line 202.
argv_differs(cur, new) == cur.argv # new.argv

\* Variant of stop_updated_cmd: the test of line 202 is missing.
stop_updated_cmd_untested(cmd_name, new_cmds, st, killOk) ==
    LET s1 == stop_process(cmd_name, [st EXCEPT !.changes = TRUE], killOk)
    IN [s1 EXCEPT !.cmds = MapInsert(@, cmd_name, new_cmds[cmd_name])]

\* Variant of stop_updated_cmd: the updated command is started at once.
stop_updated_cmd_respawning(cmd_name, new_cmds, st, killOk) ==
    IF argv_differs(st.cmds[cmd_name], new_cmds[cmd_name])
    THEN LET s1 == stop_process(cmd_name, [st EXCEPT !.changes = TRUE], killOk)
             r == get_cmd_future(cmd_name, new_cmds[cmd_name], st.next, TRUE)
         IN [s1 EXCEPT !.cmds = MapInsert(@, cmd_name, r.cmd),
                       !.futs = @ \cup {r.fut},
                       !.spawns = Append(@, r.spawn),
                       !.next = @ + 1]
    ELSE st

\* Stop commands that have been updated, re-inserting the new argument
\* vector (lines 201-208).  The insert of line 206 follows stop_process
\* whatever stop_process did.
stop_updated_cmd(cmd_name, new_cmds, st, killOk) ==
    IF argv_differs(st.cmds[cmd_name], new_cmds[cmd_name])
    THEN LET s1 == stop_process(cmd_name, [st EXCEPT !.changes = TRUE], killOk)
         IN [s1 EXCEPT !.cmds = MapInsert(@, cmd_name, new_cmds[cmd_name])]
    ELSE st

RECURSIVE stop_updated(_, _, _, _)
stop_updated(order, new_cmds, st, killOk) ==
    IF order = <<>> THEN st
    ELSE stop_updated(Tail(order), new_cmds,
                      stop_updated_cmd(Head(order), new_cmds, st, killOk[Head(order)]), killOk)

\* The three loops in the order of the code; cur_cmd_names and
\* updated_cmd_names are taken once, before any of them runs.
reconcile(new_cmds, st, oRem, oAdd, oUpd, killOk, spawnOk) ==
    stop_updated(oUpd, new_cmds,
        start_added(oAdd, new_cmds,
            stop_removed(oRem, st, killOk), spawnOk), killOk)

\* Variant of load_failed: a configuration that fails to load is taken for
\* an empty one.
load_failed_as_empty(st) == [st EXCEPT !.cmds = EmptyMap]

\* Err(e) of read_cmds in the reload branch (line 211): only a log line.
load_failed(st) == st

(***************************************************************************)
(* The completion branch, lines 232-262.                                   *)
(***************************************************************************)
\* Variant of restart_completed: restarts with the argv of the child that
\* finished instead of the argv now in cmds.
restart_completed_same_argv(child, st, spawnOk) ==
    IF child.name \in DOMAIN st.cmds
    THEN LET r == get_cmd_future(child.name, [st.cmds[child.name] EXCEPT !.argv = child.argv],
                                 st.next, spawnOk)
             s1 == [st EXCEPT !.spawns = Append(@, r.spawn)]
         IN IF r.ok
            THEN [s1 EXCEPT !.futs = @ \cup {r.fut}, !.next = @ + 1,
                            !.cmds[child.name].pid = r.cmd.pid]
            ELSE s1
    ELSE st

\* Ok(child): restart when the name is still in cmds (lines 244-253).
restart_completed(child, st, spawnOk) ==
    IF child.name \in DOMAIN st.cmds
    THEN LET r == get_cmd_future(child.name, st.cmds[child.name], st.next, spawnOk)
             s1 == [st EXCEPT !.cmds[child.name] = r.cmd, !.spawns = Append(@, r.spawn)]
         IN IF r.ok
            THEN [s1 EXCEPT !.futs = @ \cup {r.fut}, !.next = @ + 1]
            ELSE s1
    ELSE st

\* Variant of wait_failed: the name of the future is looked up and restarted.
wait_failed_restarting(child, st) == restart_completed(child, st, TRUE)

\* Err(e) of the awaited child (lines 255-261): only a log line; the future
\* has already left the stream.
wait_failed(child, st) == st

\* Startup, lines 160-165: every entry of cmds is spawned in map order; the
\* futures of the failed ones are filtered out by only_ok, cmds keeps them.
RECURSIVE spawn_all(_, _, _)
spawn_all(order, st, spawnOk) ==
    IF order = <<>> THEN st
    ELSE LET name == Head(order)
             r == get_cmd_future(name, st.cmds[name], st.next, spawnOk[name])
             s1 == [st EXCEPT !.cmds[name] = r.cmd, !.spawns = Append(@, r.spawn)]
         IN spawn_all(Tail(order),
                      IF r.ok THEN [s1 EXCEPT !.futs = @ \cup {r.fut}, !.next = @ + 1] ELSE s1,
                      spawnOk)

Init ==
    /\ pc = "init"
    /\ cmds = EmptyMap
    /\ all_futures = {}
    /\ nextPid = 1
    /\ ev = NoEvent
    /\ faulted = FALSE

\* What a handler leaves behind.
Commit(st, ok) ==
    /\ st.next <= MaxPid + 1
    /\ cmds' = st.cmds
    /\ all_futures' = st.futs
    /\ nextPid' = st.next
    /\ faulted' = (faulted \/ ~ok
                           \/ (\E i \in DOMAIN st.signals : ~st.signals[i].ok)
                           \/ (\E i \in DOMAIN st.spawns : ~st.spawns[i].ok))

Event(kind, ok, fut, cfg, st, noChanges) ==
    [kind |-> kind, ok |-> ok, fut |-> fut, cfg |-> cfg, cmds |-> cmds,
     futures |-> all_futures, signals |-> st.signals, spawns |-> st.spawns,
     noChanges |-> noChanges]

\* What read_cmds can return for the files above.
LoadResults == {read_cmds(file) : file \in ConfigFiles}

\* main up to the loop: a failed read_cmds returns the error (line 146).
StartFailed ==
    /\ pc = "init"
    /\ \E loaded \in LoadResults :
          /\ ~loaded.ok
          /\ pc' = "failed"
          /\ ev' = Event("start", FALSE, NoFut, EmptyMap, Handler(cmds, all_futures, nextPid), FALSE)
    /\ faulted' = TRUE
    /\ UNCHANGED <<cmds, all_futures, nextPid>>

Start ==
    /\ pc = "init"
    /\ \E loaded \in LoadResults :
          /\ loaded.ok
          /\ \E order \in Orders(DOMAIN loaded.cmds), spawnOk \in [DOMAIN loaded.cmds -> BOOLEAN] :
                LET st == spawn_all(order, Handler(loaded.cmds, {}, nextPid), spawnOk)
                IN /\ Commit(st, TRUE)
                   /\ ev' = Event("start", TRUE, NoFut, loaded.cmds, st, FALSE)
    /\ pc' = "loop"

\* hangups.recv() with a configuration that fails to load (line 211).
HangupLoadFailed ==
    /\ pc = "loop"
    /\ \E loaded \in LoadResults :
          /\ ~loaded.ok
          /\ LET st == load_failed(Handler(cmds, all_futures, nextPid))
             IN /\ Commit(st, FALSE)
                /\ ev' = Event("reload", FALSE, NoFut, EmptyMap, st, FALSE)
    /\ UNCHANGED pc

\* hangups.recv() with a configuration that loads (lines 172-210).  The
\* environment decides each kill and each spawn the handler makes.
Hangup ==
    /\ pc = "loop"
    /\ \E loaded \in LoadResults :
          /\ loaded.ok
          /\ LET new_cmds == loaded.cmds
                 cur_cmd_names == DOMAIN cmds
                 updated_cmd_names == DOMAIN new_cmds
                 stopped == (cur_cmd_names \ updated_cmd_names) \cup
                            {n \in cur_cmd_names \cap updated_cmd_names :
                                cmds[n].argv # new_cmds[n].argv}
                 signalled == {n \in stopped : cmds[n].pid # None}
             IN \E oRem \in Orders(cur_cmd_names \ updated_cmd_names),
                   oAdd \in Orders(updated_cmd_names \ cur_cmd_names),
                   oUpd \in Orders(cur_cmd_names \cap updated_cmd_names),
                   kill \in [signalled -> BOOLEAN],
                   spawnOk \in [updated_cmd_names \ cur_cmd_names -> BOOLEAN] :
                  LET killOk == [n \in cur_cmd_names |-> IF n \in signalled THEN kill[n] ELSE FALSE]
                      st == reconcile(new_cmds, Handler(cmds, all_futures, nextPid),
                                      oRem, oAdd, oUpd, killOk, spawnOk)
                  IN /\ Commit(st, TRUE)
                     /\ ev' = Event("reload", TRUE, NoFut, new_cmds, st, ~st.changes)
    /\ UNCHANGED pc

\* all_futures.next() yields Some(Ok(child)) (lines 233-254).
Completed ==
    /\ pc = "loop"
    /\ \E child \in all_futures, spawnOk \in BOOLEAN :
          LET st == restart_completed(child, Handler(cmds, all_futures \ {child}, nextPid), spawnOk)
          IN /\ Commit(st, TRUE)
             /\ ev' = Event("complete", TRUE, child, EmptyMap, st, FALSE)
    /\ UNCHANGED pc

\* all_futures.next() yields Some(Err(e)) (line 261).
CompletedErr ==
    /\ pc = "loop"
    /\ \E child \in all_futures :
          LET st == wait_failed(child, Handler(cmds, all_futures \ {child}, nextPid))
          IN /\ Commit(st, FALSE)
             /\ ev' = Event("complete", FALSE, child, EmptyMap, st, FALSE)
    /\ UNCHANGED pc

\* all_futures.next() yields None: the stream is empty (lines 264-267).
AllFinished ==
    /\ pc = "loop"
    /\ all_futures = {}
    /\ pc' = "done"
    /\ ev' = Event("finished", TRUE, NoFut, EmptyMap, Handler(cmds, all_futures, nextPid), FALSE)
    /\ UNCHANGED <<cmds, all_futures, nextPid, faulted>>

(***************************************************************************)
(* The HTTP-triggered variant, Boss::run of src/src/data.rs: request        *)
(* handlers on several runtime threads and termination callbacks share     *)
(* `clients` behind one RwLock; every access takes the write lock.         *)
(***************************************************************************)
\* Number of processes the operating system hands out to the variant.
MaxLaunch == 2

\* Runtime threads that serve requests.
Handlers == {1, 2}

\* Keys of Boss.clients, and the request paths (one is no client).
Clients == {"/a", "/b"}
Paths == Clients \cup {"/zz"}

VARIABLES
    clients,   \* Boss.clients: client -> Option<pid> (ClientProcess.pid)
    lock,      \* holder of the write lock of the RwLock, or Free
    req,       \* per handler thread: position in the service closure, path, spawned pid
    procs,     \* launched processes: [pid, client, state, registered]
    launched,  \* number of processes launched so far
    hev        \* the last access to a pid field: kind, client, pid, value before

hvars == <<clients, lock, req, procs, launched, hev>>

Free == <<>>
Idle == [pc |-> "idle", path |-> "", pid |-> 0]

HInit ==
    /\ clients = [c \in Clients |-> None]
    /\ lock = Free
    /\ req = [t \in Handlers |-> Idle]
    /\ procs = {}
    /\ launched = 0
    /\ hev = [kind |-> "none", client |-> "", pid |-> 0, before |-> None]

\* Variant of write_lock_free: the lock is granted whoever holds it.
write_lock_granted_always(l) == TRUE

\* RwLock::write() returns when no other guard is alive (lines 57 and 77).
write_lock_free(l) == l = Free

\* A request arrives on a handler thread (line 55).
Request(t) ==
    /\ req[t].pc = "idle"
    /\ \E path \in Paths : req' = [req EXCEPT ![t] = [pc |-> "waiting", path |-> path, pid |-> 0]]
    /\ UNCHANGED <<clients, lock, procs, launched, hev>>

\* clients_for_start.write() (line 57); the guard lives to the end of the match.
ReqLock(t) ==
    /\ req[t].pc = "waiting"
    /\ write_lock_free(lock)
    /\ lock' = <<"req", t>>
    /\ req' = [req EXCEPT ![t].pc = "locked"]
    /\ UNCHANGED <<clients, procs, launched, hev>>

\* get_mut(&client) is None: 404 (lines 94-98).
ReqNotFound(t) ==
    /\ req[t].pc = "locked"
    /\ req[t].path \notin DOMAIN clients
    /\ req' = [req EXCEPT ![t] = Idle]
    /\ lock' = Free
    /\ UNCHANGED <<clients, procs, launched, hev>>

\* pid is Some: "already running" (lines 60-63).
ReqAlreadyRunning(t) ==
    /\ req[t].pc = "locked"
    /\ req[t].path \in DOMAIN clients
    /\ clients[req[t].path] # None
    /\ req' = [req EXCEPT ![t] = Idle]
    /\ lock' = Free
    /\ UNCHANGED <<clients, procs, launched, hev>>

\* pid is None and spawn_async fails: 500 (lines 86-89).
ReqSpawnFailed(t) ==
    /\ req[t].pc = "locked"
    /\ req[t].path \in DOMAIN clients
    /\ clients[req[t].path] = None
    /\ req' = [req EXCEPT ![t] = Idle]
    /\ lock' = Free
    /\ UNCHANGED <<clients, procs, launched, hev>>

\* pid is None and spawn_async succeeds (lines 64-69).
ReqSpawn(t) ==
    /\ req[t].pc = "locked"
    /\ req[t].path \in DOMAIN clients
    /\ clients[req[t].path] = None
    /\ launched < MaxLaunch
    /\ launched' = launched + 1
    /\ procs' = procs \cup {[pid |-> launched + 1, client |-> req[t].path,
                             state |-> "running", registered |-> FALSE]}
    /\ req' = [req EXCEPT ![t].pc = "spawned", ![t].pid = launched + 1]
    /\ hev' = [kind |-> "launch", client |-> req[t].path, pid |-> launched + 1,
               before |-> clients[req[t].path]]
    /\ UNCHANGED <<clients, lock>>

\* client_data.pid = Some(pid), the completion future is handed to the
\* runtime, the response is returned and the guard dropped (lines 70-84).
ReqSetPid(t) ==
    /\ req[t].pc = "spawned"
    /\ clients' = [clients EXCEPT ![req[t].path] = Some(req[t].pid)]
    /\ procs' = {IF p.pid = req[t].pid THEN [p EXCEPT !.registered = TRUE] ELSE p : p \in procs}
    /\ hev' = [kind |-> "set", client |-> req[t].path, pid |-> req[t].pid,
               before |-> clients[req[t].path]]
    /\ req' = [req EXCEPT ![t] = Idle]
    /\ lock' = Free
    /\ UNCHANGED launched

\* The launched process terminates; the wait on it yields a status or fails.
Exit(p) ==
    /\ p.state = "running"
    /\ \E waitOk \in BOOLEAN :
          procs' = (procs \ {p}) \cup {[p EXCEPT !.state = IF waitOk THEN "exited" ELSE "waiterr"]}
    /\ UNCHANGED <<clients, lock, req, launched, hev>>

\* The callback of a failed wait panics in args.unwrap() (line 75).
CbPanic(p) ==
    /\ p.state = "waiterr"
    /\ p.registered
    /\ procs' = procs \ {p}
    /\ UNCHANGED <<clients, lock, req, launched, hev>>

\* The callback takes clients_for_cleanup.write() (line 77).
CbLock(p) ==
    /\ p.state = "exited"
    /\ p.registered
    /\ write_lock_free(lock)
    /\ lock' = <<"cb", p.pid>>
    /\ procs' = (procs \ {p}) \cup {[p EXCEPT !.state = "clearing"]}
    /\ UNCHANGED <<clients, req, launched, hev>>

\* client_data.pid = None, and the guard is dropped (lines 78-81).
CbClear(p) ==
    /\ p.state = "clearing"
    /\ clients' = [clients EXCEPT ![p.client] = None]
    /\ hev' = [kind |-> "clear", client |-> p.client, pid |-> p.pid, before |-> clients[p.client]]
    /\ procs' = procs \ {p}
    /\ lock' = Free
    /\ UNCHANGED <<req, launched>>

HNext ==
    \/ \E t \in Handlers : Request(t) /\ UNCHANGED vars
    \/ \E t \in Handlers : ReqLock(t) /\ UNCHANGED vars
    \/ \E t \in Handlers : ReqNotFound(t) /\ UNCHANGED vars
    \/ \E t \in Handlers : ReqAlreadyRunning(t) /\ UNCHANGED vars
    \/ \E t \in Handlers : ReqSpawnFailed(t) /\ UNCHANGED vars
    \/ \E t \in Handlers : ReqSpawn(t) /\ UNCHANGED vars
    \/ \E t \in Handlers : ReqSetPid(t) /\ UNCHANGED vars
    \/ \E p \in procs : Exit(p) /\ UNCHANGED vars
    \/ \E p \in procs : CbPanic(p) /\ UNCHANGED vars
    \/ \E p \in procs : CbLock(p) /\ UNCHANGED vars
    \/ \E p \in procs : CbClear(p) /\ UNCHANGED vars

\* Both programs before they have done anything.
InitAll == Init /\ HInit

\* Boss::run alone: the supervisor of boss.rs is not started.
SpecHttp == InitAll /\ [][HNext]_<<vars, hvars>>

Next ==
    \/ StartFailed /\ UNCHANGED hvars
    \/ Start /\ UNCHANGED hvars
    \/ HangupLoadFailed /\ UNCHANGED hvars
    \/ Hangup /\ UNCHANGED hvars
    \/ Completed /\ UNCHANGED hvars
    \/ CompletedErr /\ UNCHANGED hvars
    \/ AllFinished /\ UNCHANGED hvars

\* The supervisor alone: Boss::run is not started.
Spec == InitAll /\ [][Next]_<<vars, hvars>>

(***************************************************************************)
(* Vocabulary of the properties: the event in `ev` against the state it    *)
(* started from (ev.cmds, ev.futures) and the state it left.               *)
(***************************************************************************)
Reloaded == ev.kind = "reload" /\ ev.ok
CompletedOk == ev.kind = "complete" /\ ev.ok

Pending(n) == {f \in all_futures : f.name = n}
PendingBefore(n) == {f \in ev.futures : f.name = n}

Removed == DOMAIN ev.cmds \ DOMAIN ev.cfg
Added == DOMAIN ev.cfg \ DOMAIN ev.cmds
Common == DOMAIN ev.cmds \cap DOMAIN ev.cfg
Changed == {n \in Common : ev.cmds[n].argv # ev.cfg[n].argv}
Unaffected == Common \ Changed

SignalsTo(n) == SelectSeq(ev.signals, LAMBDA s : s.name = n)
SpawnsOf(n) == SelectSeq(ev.spawns, LAMBDA s : s.name = n)
SeqRange(q) == {q[i] : i \in DOMAIN q}

\* C1: at most one PendingCompletion is outstanding per name, in every
\* reachable state (stated for the runs in which no load, spawn, kill or
\* wait has failed, which the claim covers).
C1_OnePendingPerName ==
    ~faulted => \A n \in Names : Cardinality(Pending(n)) <= 1

\* C2: a reload whose configuration lacks a supervised name n, whose process
\* has not yet been observed to complete, sends exactly one stop signal, to
\* that process; once the signal is delivered the Entry is gone, so that the
\* completion of the process spawns nothing more for n (stated for the runs
\* in which nothing has failed).
C2_Removal ==
    (Reloaded /\ ~faulted) =>
        \A n \in Removed :
            PendingBefore(n) # {} =>
                /\ Len(SignalsTo(n)) = 1
                /\ SignalsTo(n)[1].pid \in {f.pid : f \in PendingBefore(n)}
                /\ SignalsTo(n)[1].ok => n \notin DOMAIN cmds

\* C3: a reload that changes the argv of a supervised name n, whose process
\* has not yet been observed to complete, sends exactly one stop signal, to
\* that process; and every completion observed for a name that has an Entry
\* spawns with the argv the Entry holds at that moment (stated for the runs
\* in which nothing has failed).
C3_Update ==
    /\ (Reloaded /\ ~faulted) =>
          \A n \in Changed :
              PendingBefore(n) # {} =>
                  /\ Len(SignalsTo(n)) = 1
                  /\ SignalsTo(n)[1].pid \in {f.pid : f \in PendingBefore(n)}
    /\ CompletedOk /\ ev.fut.name \in DOMAIN ev.cmds =>
          /\ Len(ev.spawns) = 1
          /\ ev.spawns[1].argv = ev.cmds[ev.fut.name].argv

\* C4: in the loop, an Entry's pid is present iff exactly one
\* PendingCompletion is outstanding for the Entry's name (stated for the
\* runs in which nothing has failed).
C4_PidIffPending ==
    (pc = "loop" /\ ~faulted) =>
        \A n \in DOMAIN cmds :
            (cmds[n].pid # None) <=> (Cardinality(Pending(n)) = 1)

\* C5: the loop has ended only if no PendingCompletion is outstanding and no
\* Entry remains in the Supervision Set.
C5_EndsOnlyWhenRetired ==
    pc = "done" => (all_futures = {} /\ DOMAIN cmds = {})

\* C6: when a PendingCompletion for n resolves successfully, the same event
\* spawns once with the Entry's current argv if an Entry for n is present
\* (registering the new PendingCompletion on success), and spawns nothing and
\* leaves the Supervision Set unchanged if no Entry is present.
C6_RestartForever ==
    CompletedOk =>
        LET n == ev.fut.name
            rest == ev.futures \ {ev.fut}
        IN IF n \in DOMAIN ev.cmds
           THEN /\ Len(ev.spawns) = 1
                /\ ev.spawns[1].name = n
                /\ ev.spawns[1].argv = ev.cmds[n].argv
                /\ DOMAIN cmds = DOMAIN ev.cmds
                /\ \A m \in DOMAIN cmds : cmds[m].argv = ev.cmds[m].argv
                /\ IF ev.spawns[1].ok
                   THEN \E f \in all_futures \ ev.futures :
                            /\ all_futures = rest \cup {f}
                            /\ f.name = n
                            /\ f.argv = ev.cmds[n].argv
                            /\ cmds[n].pid = Some(f.pid)
                   ELSE all_futures = rest
           ELSE /\ ev.spawns = <<>>
                /\ cmds = ev.cmds
                /\ all_futures = rest

\* A process that ran the old argv has completed and its name was restarted
\* with the argv staged in the Entry.
C6_Witness ==
    /\ CompletedOk
    /\ ev.fut.name \in DOMAIN ev.cmds
    /\ ev.fut.argv # ev.cmds[ev.fut.name].argv
    /\ Len(ev.spawns) = 1
    /\ ev.spawns[1].ok

\* C7: a reload whose configuration has the names and the argv of the
\* current Supervision Set sends no signal, spawns nothing, leaves the
\* Supervision Set and the active set as they were and reports no changes.
C7_NoOpReload ==
    (Reloaded /\ Added = {} /\ Removed = {} /\ Changed = {}) =>
        /\ ev.signals = <<>>
        /\ ev.spawns = <<>>
        /\ cmds = ev.cmds
        /\ all_futures = ev.futures
        /\ ev.noChanges

\* A reload with the configuration of a running, non-empty Supervision Set.
C7_Witness ==
    /\ Reloaded /\ Added = {} /\ Removed = {} /\ Changed = {}
    /\ \E n \in DOMAIN ev.cmds : ev.cmds[n].pid # None /\ PendingBefore(n) # {}

\* C8: in a reload, a name in both the Supervision Set and the new
\* configuration with equal argv gets no signal and no spawn, and its Entry
\* and PendingCompletions are unchanged; no changes is not reported when a
\* name is added, removed or changed.
C8_UnaffectedUntouched ==
    Reloaded =>
        /\ \A n \in Unaffected :
              /\ SignalsTo(n) = <<>>
              /\ \A s \in SeqRange(ev.signals) : s.pid \notin {f.pid : f \in PendingBefore(n)}
              /\ SpawnsOf(n) = <<>>
              /\ n \in DOMAIN cmds
              /\ cmds[n] = ev.cmds[n]
              /\ Pending(n) = PendingBefore(n)
        /\ (Added \cup Removed \cup Changed # {}) => ~ev.noChanges

\* A reload that stops another name while an unaffected one keeps running.
C8_Witness ==
    /\ Reloaded
    /\ \E n \in Unaffected : ev.cmds[n].pid # None /\ PendingBefore(n) # {}
    /\ \E s \in SeqRange(ev.signals) : s.ok

\* C9: in a reload, every name of the new configuration that is not in the
\* Supervision Set is spawned once in that same event with its configured
\* argv; on success its Entry holds the new spec and the pid, and its
\* PendingCompletion is in the active set.
C9_AddedSpawnedInReload ==
    Reloaded =>
        \A n \in Added :
            /\ Len(SpawnsOf(n)) = 1
            /\ SpawnsOf(n)[1].argv = ev.cfg[n].argv
            /\ SpawnsOf(n)[1].ok =>
                  /\ n \in DOMAIN cmds
                  /\ cmds[n].argv = ev.cfg[n].argv
                  /\ \E f \in all_futures \ ev.futures :
                        /\ f.name = n
                        /\ f.argv = ev.cfg[n].argv
                        /\ cmds[n].pid = Some(f.pid)

\* A name was added and started while another process was still running.
C9_Witness ==
    /\ Reloaded
    /\ \E n \in Added :
          /\ Len(SpawnsOf(n)) = 1
          /\ SpawnsOf(n)[1].ok
          /\ \E f \in ev.futures : f.name # n /\ f \in all_futures

\* C10: a reload spawns nothing for a name whose argv changed: the new argv
\* is staged in the Entry and the PendingCompletions of the name stay as they
\* were; a reload spawns only added names, and every other spawn is made by
\* the completion handler of a PendingCompletion of the same name.
C10_ChangeNeverSpawnsInReload ==
    /\ Reloaded =>
          /\ \A n \in Changed :
                /\ SpawnsOf(n) = <<>>
                /\ n \in DOMAIN cmds
                /\ cmds[n].argv = ev.cfg[n].argv
                /\ Pending(n) = PendingBefore(n)
          /\ \A s \in SeqRange(ev.spawns) : s.name \in Added
    /\ ev.kind = "complete" =>
          \A s \in SeqRange(ev.spawns) : s.name = ev.fut.name /\ ev.fut \in ev.futures

\* A reload has staged a new argv for a name whose process, started with the
\* old argv, was signalled and is still awaited.
C10_Witness ==
    /\ Reloaded
    /\ \E n \in Changed :
          /\ SignalsTo(n) # <<>>
          /\ \E f \in Pending(n) : f.argv # cmds[n].argv

LoadFailed == ev.kind = "reload" /\ ~ev.ok
WaitFailed == ev.kind = "complete" /\ ~ev.ok
Started == ev.kind = "start" /\ ev.ok

\* C11: when the configuration fails to load on a reload trigger, the
\* Supervision Set and the active set are unchanged, no signal is sent,
\* nothing is spawned and the loop goes on.
C11_LoadFailureChangesNothing ==
    LoadFailed =>
        /\ cmds = ev.cmds
        /\ all_futures = ev.futures
        /\ ev.signals = <<>>
        /\ ev.spawns = <<>>
        /\ pc = "loop"

\* A reload failed to load while a process was supervised and awaited.
C11_Witness ==
    /\ LoadFailed
    /\ \E n \in DOMAIN ev.cmds : ev.cmds[n].pid # None /\ PendingBefore(n) # {}

\* C12: in a reload, a removed name whose termination signal failed keeps
\* its Entry as it was (spec and pid), and the Entry of a removed name is
\* deleted only if its signal was sent successfully.
C12_RemovalSignalFailure ==
    Reloaded =>
        \A n \in Removed :
            /\ (\E s \in SeqRange(SignalsTo(n)) : ~s.ok) =>
                  (n \in DOMAIN cmds /\ cmds[n] = ev.cmds[n])
            /\ n \notin DOMAIN cmds =>
                  (\E s \in SeqRange(SignalsTo(n)) : s.ok /\ Some(s.pid) = ev.cmds[n].pid)

\* The signal for a removed name failed.
C12_Witness ==
    /\ Reloaded
    /\ \E n \in Removed : \E s \in SeqRange(SignalsTo(n)) : ~s.ok

\* C13: in a reload, a name whose argv changed and whose termination signal
\* failed keeps its Entry exactly as it was (old spec, old pid).
C13_ChangeSignalFailure ==
    Reloaded =>
        \A n \in Changed :
            (\E s \in SeqRange(SignalsTo(n)) : ~s.ok) =>
                (n \in DOMAIN cmds /\ cmds[n] = ev.cmds[n])

\* C14: after startup the Supervision Set holds exactly the configured names
\* whose spawn succeeded; a name whose spawn failed has no Entry and no
\* PendingCompletion.
C14_StartupSpawnFailure ==
    Started =>
        /\ DOMAIN cmds = {n \in DOMAIN ev.cfg : \E s \in SeqRange(SpawnsOf(n)) : s.ok}
        /\ \A n \in DOMAIN ev.cfg :
              (\E s \in SeqRange(SpawnsOf(n)) : ~s.ok) => Pending(n) = {}

\* C15: in a reload, an added name whose spawn failed gets no Entry and no
\* new PendingCompletion; and a name without an Entry is spawned by no event
\* other than a reload that has it in its added set.
C15_AddedSpawnFailure ==
    /\ Reloaded =>
          \A n \in Added :
              (\E s \in SeqRange(SpawnsOf(n)) : ~s.ok) =>
                  (n \notin DOMAIN cmds /\ Pending(n) = PendingBefore(n))
    /\ \A s \in SeqRange(ev.spawns) :
          s.name \notin DOMAIN ev.cmds => ((Reloaded /\ s.name \in Added) \/ Started)

\* The spawn of an added name failed while another name stayed supervised.
C15_Witness ==
    /\ Reloaded
    /\ \E n \in Added : \E s \in SeqRange(SpawnsOf(n)) : ~s.ok
    /\ DOMAIN cmds # {}

\* C16: when the restart spawn of a completion handler fails for a name with
\* an Entry, the Entry remains and no PendingCompletion is active for the
\* name.
C16_FailedRespawnOrphans ==
    (CompletedOk /\ ev.fut.name \in DOMAIN ev.cmds
                 /\ \E s \in SeqRange(ev.spawns) : ~s.ok) =>
        /\ ev.fut.name \in DOMAIN cmds
        /\ Pending(ev.fut.name) = {}

\* C17: a PendingCompletion that resolves with an error restarts nothing,
\* leaves the Supervision Set unchanged and leaves the active set, and the
\* loop goes on.
C17_WaitErrorRestartsNothing ==
    WaitFailed =>
        /\ ev.spawns = <<>>
        /\ ev.signals = <<>>
        /\ cmds = ev.cmds
        /\ all_futures = ev.futures \ {ev.fut}
        /\ ev.fut \in ev.futures
        /\ pc = "loop"

\* The wait on the process of a supervised name failed.
C17_Witness ==
    /\ WaitFailed
    /\ ev.fut.name \in DOMAIN cmds
    /\ Some(ev.fut.pid) = cmds[ev.fut.name].pid

\* C18: after a reload that loaded, in which every signal sent and every
\* spawn succeeded, the Supervision Set has the names and the argv of the
\* loaded configuration (stated for the runs in which nothing has failed
\* before either).
C18_ReloadConverges ==
    (Reloaded /\ ~faulted) =>
        /\ DOMAIN cmds = DOMAIN ev.cfg
        /\ \A n \in DOMAIN cmds : cmds[n].argv = ev.cfg[n].argv

\* C19: a reload sends its stop signals only to pids of children whose
\* PendingCompletion is still outstanding.
C19_SignalsOnlyAwaitedPids ==
    Reloaded =>
        \A s \in SeqRange(ev.signals) : \E f \in ev.futures : f.pid = s.pid

Running(c) == {p \in procs : p.client = c /\ p.state = "running"}

\* C20: in Boss::run, under any interleaving of requests and termination
\* callbacks, at most one launched process per client is running; a process
\* is launched only when the client's pid is absent; the check and the pid
\* assignment are made under one hold of the write lock; and a pid is cleared
\* only by the termination callback of the process that set it.
C20_OneProcessPerClient ==
    /\ \A c \in Clients : Cardinality(Running(c)) <= 1
    /\ hev.kind = "launch" => hev.before = None
    /\ hev.kind = "set" => hev.before = None
    /\ \A t \in Handlers : req[t].pc \in {"locked", "spawned"} => lock = <<"req", t>>
    /\ hev.kind = "clear" => hev.before = Some(hev.pid)

\* A client is running its second process, launched after the callback of
\* the first cleared the pid, while another request for it waits for the lock.
C20_Witness ==
    \E p \in procs :
        /\ p.pid > 1
        /\ p.state = "running"
        /\ clients[p.client] = Some(p.pid)
        /\ hev.kind = "set"
        /\ \E t \in Handlers : req[t].pc = "waiting" /\ req[t].path = p.client
====
